---- MODULE Spec2Model ----
(***************************************************************************)
(* Model of the telemetry facade: MetricsManager (telemetry/metrics.py)    *)
(* and customize_record_factory (telemetry/traces.py).                     *)
(*                                                                         *)
(* Python dicts are modelled as functions whose DOMAIN is the set of keys; *)
(* dict objects passed by reference live in `heap`, indexed by object id.  *)
(* A config dict is a sequence of entries with distinct keys (dicts        *)
(* iterate in insertion order).  Measurement amounts are small integers.   *)
(***************************************************************************)
EXTENDS Integers, Sequences, FiniteSets, TLC

\* ---------------------------------------------------------------- bounds
MaxHandles   == 4       \* histograms the meter may create in one run
MaxConfigLen == 2       \* entries in one config dict
MaxLayers    == 2       \* nested record factories

\* ------------------------------------------------------------ input sets
Inst      == {1, 2}                 \* MetricsManager instances
ObjIds    == {1, 2}                 \* caller-owned attribute dict objects
Keys      == {"k1", "k2"}           \* metric keys
Fields    == {"name", "unit", "description"}
AttrNames == {"a", "b"}
AttrVals  == {1, 2}
Amounts   == {1, 2}
LayerNames == {"x", "msg"}          \* keyword names given to customize_record_factory
LayerVals  == {"u", "v"}
Msgs       == {"m1", "m2"}          \* messages of log calls

DefA == [name |-> "latency", unit |-> "s", description |-> "Request latency"]
DefB == [name |-> "size", unit |-> "b", description |-> "Payload size"]
NoName == [unit |-> "s", description |-> "Request latency"]
NoUnit == [name |-> "latency", description |-> "Request latency"]
NoDesc == [name |-> "latency", unit |-> "s"]
Defs == {DefA, DefB, NoName, NoUnit, NoDesc}

Entries == [key : Keys, def : Defs]
Configs == UNION {{c \in [1..n -> Entries] :
                     \A p, q \in 1..n : p # q => c[p].key # c[q].key} :
                  n \in 0..MaxConfigLen}

\* ------------------------------------------------------------ dict helpers
EmptyDict == <<>>
DictSet(d, k, v) == [x \in DOMAIN d \cup {k} |-> IF x = k THEN v ELSE d[x]]
DictPop(d, k)    == [x \in DOMAIN d \ {k} |-> d[x]]
AttrDicts == UNION {[S -> AttrVals] : S \in SUBSET AttrNames}
LayerDicts == UNION {[S -> LayerVals] : S \in SUBSET LayerNames}

VARIABLES
  alive,        \* instances whose __init__ returned
  metrics,      \* metrics[i]: self.metrics of instance i
  attributes,   \* attributes[i]: object id held in self.attributes
  heap,         \* heap[o]: content of attribute dict object o
  nextId,       \* identity of the next histogram the meter creates
  last,         \* the last call: arguments, exception, factory traffic
  factory,      \* the record factory logging has installed (a closure chain)
  installed,    \* attribute sets given to customize_record_factory, in call order
  logRecord     \* the last log record built by the installed factory

vars == <<alive, metrics, attributes, heap, nextId, last, factory, installed, logRecord>>
regVars == <<alive, metrics, attributes, heap, nextId, last>>
logVars == <<factory, installed, logRecord>>

NoCall == [op |-> "none", inst |-> 0, cfg |-> <<>>, key |-> "", amount |-> 0,
           attrs |-> <<>>, exc |-> "none", created |-> <<>>, handed |-> <<>>,
           old |-> <<>>]

\* meter.create_histogram(name, unit, description).  The meter belongs to the
\* SDK; every call is taken to return a new instrument, identified by id,
\* that remembers the arguments it was made from.
create_histogram(id, name, unit, description) ==
  [id |-> id, name |-> name, unit |-> unit, description |-> description]

\* Variant of RegisterAll that keeps the handle of a key already present
\* (dict.setdefault instead of assignment).
RECURSIVE RegisterAllKeepOld(_, _, _, _)
RegisterAllKeepOld(m, cfg, id, created) ==
  IF cfg = <<>>
  THEN [metrics |-> m, nextId |-> id, created |-> created, exc |-> "none"]
  ELSE LET key == cfg[1].key
           def == cfg[1].def
       IN IF ~ (Fields \subseteq DOMAIN def)
          THEN [metrics |-> m, nextId |-> id, created |-> created,
                exc |-> "MetricConfigurationException"]
          ELSE LET h == create_histogram(id, def.name, def.unit, def.description)
               IN RegisterAllKeepOld(
                    IF key \in DOMAIN m THEN m ELSE DictSet(m, key, h),
                    Tail(cfg), id + 1, Append(created, h))

\* Variant of RegisterAll that validates the whole config before creating
\* anything (all-or-nothing registration).
RECURSIVE RegisterAllAtomic(_, _, _, _)
RegisterAllAtomic(m, cfg, id, created) ==
  IF \E n \in DOMAIN cfg : ~ (Fields \subseteq DOMAIN cfg[n].def)
  THEN [metrics |-> m, nextId |-> id, created |-> created,
        exc |-> "MetricConfigurationException"]
  ELSE IF cfg = <<>>
  THEN [metrics |-> m, nextId |-> id, created |-> created, exc |-> "none"]
  ELSE LET h == create_histogram(id, cfg[1].def.name, cfg[1].def.unit,
                                 cfg[1].def.description)
       IN RegisterAllAtomic(DictSet(m, cfg[1].key, h), Tail(cfg), id + 1,
                            Append(created, h))

\* The registration loop shared by __init__ and add:
\*   for key in config:
\*       self.metrics[key] = self.meter.create_histogram(
\*           config[key]["name"], config[key]["unit"], config[key]["description"])
\* The three subscripts are evaluated before the call; a missing one raises
\* KeyError and ends the loop with the earlier assignments in place.
RECURSIVE RegisterAll(_, _, _, _)
RegisterAll(m, cfg, id, created) ==
  IF cfg = <<>>
  THEN [metrics |-> m, nextId |-> id, created |-> created, exc |-> "none"]
  ELSE LET key == cfg[1].key
           def == cfg[1].def
       IN IF ~ (Fields \subseteq DOMAIN def)
          THEN [metrics |-> m, nextId |-> id, created |-> created,
                exc |-> "MetricConfigurationException"]
          ELSE LET h == create_histogram(id, def.name, def.unit, def.description)
               IN RegisterAll(DictSet(m, key, h), Tail(cfg), id + 1,
                              Append(created, h))

\* Variant of RecordCall that looks the key up with dict.get and skips a
\* missing metric silently.
RecordCallNoRaise(m, attrs, metric, amount) ==
  IF metric \in DOMAIN m
  THEN [exc |-> "none",
        handed |-> <<[handle |-> m[metric], amount |-> amount, attributes |-> attrs]>>]
  ELSE [exc |-> "none", handed |-> <<>>]

\* Variant of RecordCall that records without the attributes.
RecordCallNoTags(m, attrs, metric, amount) ==
  IF metric \in DOMAIN m
  THEN [exc |-> "none",
        handed |-> <<[handle |-> m[metric], amount |-> amount, attributes |-> EmptyDict]>>]
  ELSE [exc |-> "MetricNotFound", handed |-> <<>>]

\* self.metrics[metric].record(amount, self.attributes)
RecordCall(m, attrs, metric, amount) ==
  IF metric \in DOMAIN m
  THEN [exc |-> "none",
        handed |-> <<[handle |-> m[metric], amount |-> amount, attributes |-> attrs]>>]
  ELSE [exc |-> "MetricNotFound", handed |-> <<>>]

\* Variant of RemoveCall that clears the whole dict.
RemoveCallClear(m, metric) ==
  IF metric \in DOMAIN m
  THEN [exc |-> "none", metrics |-> EmptyDict]
  ELSE [exc |-> "MetricNotFound", metrics |-> m]

\* self.metrics.pop(metric)
RemoveCall(m, metric) ==
  IF metric \in DOMAIN m
  THEN [exc |-> "none", metrics |-> DictPop(m, metric)]
  ELSE [exc |-> "MetricNotFound", metrics |-> m]

\* Variant of MergeAttributes in which an existing attribute wins.
MergeAttributesKeepOld(d, attrs) ==
  [x \in DOMAIN d \cup DOMAIN attrs |-> IF x \in DOMAIN d THEN d[x] ELSE attrs[x]]

\* for key in attributes: self.attributes[key] = attributes[key]
MergeAttributes(d, attrs) ==
  [x \in DOMAIN d \cup DOMAIN attrs |-> IF x \in DOMAIN attrs THEN attrs[x] ELSE d[x]]

\* Variant of DropAttribute without the membership test: pop raises.
DropAttributeUnguarded(d, attribute) ==
  IF attribute \in DOMAIN d THEN [exc |-> "none", dict |-> DictPop(d, attribute)]
  ELSE [exc |-> "KeyError", dict |-> d]

\* if attribute in self.attributes: self.attributes.pop(attribute)
DropAttribute(d, attribute) ==
  IF attribute \in DOMAIN d THEN [exc |-> "none", dict |-> DictPop(d, attribute)]
  ELSE [exc |-> "none", dict |-> d]

AttrsOf(i) == heap[attributes[i]]

\* logging.LogRecord, the factory installed when logging is imported
BaseFactory == [kind |-> "base", old |-> <<>>, attributes |-> <<>>]
LogRecord(msg) == [msg |-> msg, levelname |-> "INFO"]

\* Variant of WrapFactory that wraps logging.LogRecord instead of the
\* factory found installed.
WrapFactoryOverBase(old_factory, attrs) ==
  [kind |-> "wrapped", old |-> BaseFactory, attributes |-> attrs]

\* the closure record_factory, capturing old_factory and attributes
WrapFactory(old_factory, attrs) ==
  [kind |-> "wrapped", old |-> old_factory, attributes |-> attrs]

\* for k, v in attributes.items(): setattr(record, k, v)
SetAttrs(record, attrs) ==
  [f \in DOMAIN record \cup DOMAIN attrs |->
     IF f \in DOMAIN attrs THEN attrs[f] ELSE record[f]]

\* record_factory(*args, **kwargs)
RECURSIVE RunFactory(_, _)
RunFactory(f, msg) ==
  IF f.kind = "base" THEN LogRecord(msg)
  ELSE SetAttrs(RunFactory(f.old, msg), f.attributes)

TypeOK ==
  /\ alive \subseteq Inst
  /\ nextId \in 1..(MaxHandles + 1)
  /\ \A i \in Inst : DOMAIN metrics[i] \subseteq Keys
  /\ \A i \in alive : attributes[i] \in ObjIds
  /\ \A o \in ObjIds : heap[o] \in AttrDicts

Init ==
  /\ alive = {}
  /\ metrics = [i \in Inst |-> EmptyDict]
  /\ attributes = [i \in Inst |-> 0]
  /\ heap \in [ObjIds -> {EmptyDict, [a |-> 1]}]
  /\ nextId = 1
  /\ last = NoCall
  /\ factory = BaseFactory
  /\ installed = <<>>
  /\ logRecord = [msg |-> "", fields |-> <<>>]

\* MetricsManager(name, interval, config, attributes): attributes is the
\* caller's dict object o, stored by reference.
Construct(i, cfg, o) ==
  /\ i \notin alive
  /\ nextId - 1 + Len(cfg) <= MaxHandles
  /\ LET r == RegisterAll(EmptyDict, cfg, nextId, <<>>) IN
     /\ nextId' = r.nextId
     /\ last' = [NoCall EXCEPT !.op = "construct", !.inst = i, !.cfg = cfg,
                               !.exc = r.exc, !.created = r.created]
     /\ IF r.exc = "none"
        THEN /\ alive' = alive \cup {i}
             /\ metrics' = [metrics EXCEPT ![i] = r.metrics]
             /\ attributes' = [attributes EXCEPT ![i] = o]
        ELSE UNCHANGED <<alive, metrics, attributes>>
  /\ UNCHANGED <<heap, logVars>>

Record(i, metric, amount) ==
  /\ i \in alive
  /\ LET r == RecordCall(metrics[i], AttrsOf(i), metric, amount) IN
     last' = [NoCall EXCEPT !.op = "record", !.inst = i, !.key = metric,
                            !.amount = amount, !.exc = r.exc, !.handed = r.handed,
                            !.old = metrics[i]]
  /\ UNCHANGED <<alive, metrics, attributes, heap, nextId, logVars>>

Add(i, cfg) ==
  /\ i \in alive
  /\ nextId - 1 + Len(cfg) <= MaxHandles
  /\ LET r == RegisterAll(metrics[i], cfg, nextId, <<>>) IN
     /\ nextId' = r.nextId
     /\ metrics' = [metrics EXCEPT ![i] = r.metrics]
     /\ last' = [NoCall EXCEPT !.op = "add", !.inst = i, !.cfg = cfg,
                               !.exc = r.exc, !.created = r.created,
                               !.old = metrics[i]]
  /\ UNCHANGED <<alive, attributes, heap, logVars>>

Remove(i, metric) ==
  /\ i \in alive
  /\ LET r == RemoveCall(metrics[i], metric) IN
     /\ metrics' = [metrics EXCEPT ![i] = r.metrics]
     /\ last' = [NoCall EXCEPT !.op = "remove", !.inst = i, !.key = metric,
                               !.exc = r.exc, !.old = metrics[i]]
  /\ UNCHANGED <<alive, attributes, heap, nextId, logVars>>

AddAttributes(i, attrs) ==
  /\ i \in alive
  /\ heap' = [heap EXCEPT ![attributes[i]] = MergeAttributes(@, attrs)]
  /\ last' = [NoCall EXCEPT !.op = "add_attributes", !.inst = i, !.attrs = attrs,
                            !.old = AttrsOf(i)]
  /\ UNCHANGED <<alive, metrics, attributes, nextId, logVars>>

RemoveAttributes(i, attribute) ==
  /\ i \in alive
  /\ LET r == DropAttribute(AttrsOf(i), attribute) IN
     /\ heap' = [heap EXCEPT ![attributes[i]] = r.dict]
     /\ last' = [NoCall EXCEPT !.op = "remove_attributes", !.inst = i,
                               !.key = attribute, !.exc = r.exc, !.old = AttrsOf(i)]
  /\ UNCHANGED <<alive, metrics, attributes, nextId, logVars>>

CustomizeRecordFactory(attrs) ==
  /\ Len(installed) < MaxLayers
  /\ factory' = WrapFactory(factory, attrs)
  /\ installed' = Append(installed, attrs)
  /\ UNCHANGED <<logRecord, regVars>>

\* any logging call: logging builds the record with the installed factory
MakeLogRecord(msg) ==
  /\ logRecord' = [msg |-> msg, fields |-> RunFactory(factory, msg)]
  /\ UNCHANGED <<factory, installed, regVars>>

\* ------------------------------------------------------------------------
\* Spec: one manager, registration calls in full, one attribute.
SmallAttrs == {[a |-> 2]}
Next ==
  \/ \E cfg \in Configs : Construct(1, cfg, 1)
  \/ \E k \in Keys, x \in Amounts : Record(1, k, x)
  \/ \E cfg \in Configs : Add(1, cfg)
  \/ \E k \in Keys : Remove(1, k)
  \/ \E d \in SmallAttrs : AddAttributes(1, d)
  \/ \E n \in {"a"} : RemoveAttributes(1, n)

Spec == Init /\ [][Next]_vars

\* SpecAttr: two managers that may be given the same attribute dict,
\* attribute calls in full, single-entry configs.
AttrConfigs == {<<[key |-> "k1", def |-> DefA]>>}
NextAttr ==
  \/ \E i \in Inst, cfg \in AttrConfigs, o \in ObjIds : Construct(i, cfg, o)
  \/ \E i \in Inst, k \in Keys, x \in Amounts : Record(i, k, x)
  \/ \E i \in Inst, cfg \in AttrConfigs : Add(i, cfg)
  \/ \E i \in Inst, k \in Keys : Remove(i, k)
  \/ \E i \in Inst, d \in AttrDicts : AddAttributes(i, d)
  \/ \E i \in Inst, n \in AttrNames : RemoveAttributes(i, n)

SpecAttr == Init /\ [][NextAttr]_vars

\* SpecLog: the logging facility alone (the two facilities do not interact).
NextLog ==
  \/ \E d \in LayerDicts : CustomizeRecordFactory(d)
  \/ \E m \in Msgs : MakeLogRecord(m)

SpecLog == Init /\ [][NextLog]_vars

\* ========================================================================
\* Properties
\* ========================================================================
KeysOf(cfg) == {cfg[n].key : n \in DOMAIN cfg}
WellFormed(def) == Fields \subseteq DOMAIN def
Valid(cfg) == \A n \in DOMAIN cfg : WellFormed(cfg[n].def)
IndexOf(cfg, k) == CHOOSE n \in DOMAIN cfg : cfg[n].key = k
FirstBad(cfg) == CHOOSE n \in DOMAIN cfg :
                   /\ ~ WellFormed(cfg[n].def)
                   /\ \A p \in 1..(n - 1) : WellFormed(cfg[p].def)
MadeFrom(h, def) ==
  h.name = def.name /\ h.unit = def.unit /\ h.description = def.description
SameExcept(d1, d2, ks) ==
  /\ DOMAIN d1 \ ks = DOMAIN d2 \ ks
  /\ \A x \in DOMAIN d1 \ ks : d1[x] = d2[x]

\* C1: record(k, amount) raises MetricNotFound exactly when k is not a key
\* of the metrics map at the time of the call, whatever calls came before;
\* when it raises, nothing is handed to an instrument.
C1_RecordRaisesIffUnregistered ==
  [][last'.op = "record" =>
       LET m == metrics[last'.inst]
           k == last'.key
       IN /\ (last'.exc = "MetricNotFound") <=> (k \notin DOMAIN m)
          /\ k \in DOMAIN m => last'.exc = "none"
          /\ k \notin DOMAIN m => last'.handed = <<>>]_vars

C1_Witness ==
  /\ last.op = "record"
  /\ last.exc = "MetricNotFound"
  /\ DOMAIN last.old # {}
  /\ last.handed = <<>>

\* C2: remove(k) on a registered key deletes exactly that entry and keeps
\* every other handle; on an unregistered key it raises MetricNotFound and
\* changes nothing.  An unregistered key stays unregistered (so record and
\* remove on it raise) until an add whose config holds it.
C2_RemoveDeletesExactlyTheKey ==
  [][/\ last'.op = "remove" =>
          LET i == last'.inst
              k == last'.key
          IN IF k \in DOMAIN metrics[i]
             THEN /\ last'.exc = "none"
                  /\ DOMAIN metrics'[i] = DOMAIN metrics[i] \ {k}
                  /\ \A x \in DOMAIN metrics'[i] : metrics'[i][x] = metrics[i][x]
             ELSE /\ last'.exc = "MetricNotFound"
                  /\ metrics' = metrics
     /\ \A i \in alive, k \in Keys :
          k \notin DOMAIN metrics[i] =>
             /\ (last'.inst = i /\ last'.op \in {"record", "remove"} /\ last'.key = k)
                   => last'.exc = "MetricNotFound"
             /\ k \in DOMAIN metrics'[i]
                   => (last'.op = "add" /\ last'.inst = i /\ k \in KeysOf(last'.cfg))
    ]_vars

C2_Witness ==
  /\ last.op = "remove"
  /\ last.exc = "none"
  /\ last.key \in DOMAIN last.old
  /\ last.key \notin DOMAIN metrics[last.inst]
  /\ DOMAIN metrics[last.inst] # {}

\* C3: construct and add with a config whose entries all have name, unit
\* and description succeed; afterwards every key of the config maps to its
\* own handle, made by one create_histogram call of this operation from the
\* entry's name, unit and description; add replaces the handle of a key
\* already registered, and keys outside the config keep their handles.
C3_ValidConfigRegistersEveryKey ==
  [][(last'.op \in {"construct", "add"} /\ Valid(last'.cfg)) =>
       LET i    == last'.inst
           cfg  == last'.cfg
           base == IF last'.op = "add" THEN metrics[i] ELSE EmptyDict
           made == last'.created
       IN /\ last'.exc = "none"
          /\ i \in alive'
          /\ DOMAIN metrics'[i] = DOMAIN base \cup KeysOf(cfg)
          /\ Len(made) = Len(cfg)
          /\ nextId' = nextId + Len(cfg)
          /\ \A p, q \in DOMAIN made : p # q => made[p] # made[q]
          /\ \A k \in KeysOf(cfg) :
               /\ metrics'[i][k] = made[IndexOf(cfg, k)]
               /\ Cardinality({n \in DOMAIN made : made[n] = metrics'[i][k]}) = 1
               /\ MadeFrom(metrics'[i][k], cfg[IndexOf(cfg, k)].def)
               /\ metrics'[i][k].id >= nextId
               /\ k \in DOMAIN base => metrics'[i][k] # base[k]
          /\ \A k \in DOMAIN base \ KeysOf(cfg) : metrics'[i][k] = base[k]]_vars

C3_Witness ==
  /\ last.op = "add"
  /\ last.exc = "none"
  /\ Valid(last.cfg)
  /\ \E k \in KeysOf(last.cfg) :
       /\ k \in DOMAIN last.old
       /\ metrics[last.inst][k] # last.old[k]
  /\ \E k \in DOMAIN last.old \ KeysOf(last.cfg) :
       metrics[last.inst][k] = last.old[k]

\* C4: constructing with a config that has a malformed entry raises the
\* configuration error with no histogram created, wherever the malformed
\* entry stands in the config.
C4_ConstructFailsBeforeAnyInstrument ==
  (last.op = "construct" /\ ~ Valid(last.cfg)) =>
     /\ last.exc = "MetricConfigurationException"
     /\ last.created = <<>>

\* C5: add_attributes never fails; afterwards every key of the argument maps
\* to the argument's value and every other attribute keeps its value.
C5_AddAttributesLastWriteWins ==
  [][last'.op = "add_attributes" =>
       LET i   == last'.inst
           a   == last'.attrs
           d   == heap[attributes[i]]
           dd  == heap'[attributes'[i]]
       IN /\ last'.exc = "none"
          /\ DOMAIN dd = DOMAIN d \cup DOMAIN a
          /\ \A x \in DOMAIN a : dd[x] = a[x]
          /\ \A x \in DOMAIN d \ DOMAIN a : dd[x] = d[x]]_vars

C5_Witness ==
  /\ last.op = "add_attributes"
  /\ last.exc = "none"
  /\ "a" \in DOMAIN last.old /\ last.old["a"] = 1
  /\ "a" \in DOMAIN last.attrs /\ last.attrs["a"] = 2
  /\ AttrsOf(last.inst)["a"] = 2
  /\ "b" \in DOMAIN last.old \ DOMAIN last.attrs
  /\ AttrsOf(last.inst)["b"] = last.old["b"]

\* C6: removing an attribute never raises; a present name is deleted and
\* the other attributes stay, an absent name leaves the attributes and the
\* metrics map as they were; remove of an absent metric key raises
\* MetricNotFound.
C6_RemoveAttributeNeverRaises ==
  [][/\ last'.op = "remove_attributes" =>
          LET i  == last'.inst
              n  == last'.key
              d  == heap[attributes[i]]
              dd == heap'[attributes'[i]]
          IN /\ last'.exc = "none"
             /\ metrics' = metrics
             /\ DOMAIN dd = DOMAIN d \ {n}
             /\ \A x \in DOMAIN dd : dd[x] = d[x]
             /\ n \notin DOMAIN d => heap' = heap
     /\ (last'.op = "remove" /\ last'.key \notin DOMAIN metrics[last'.inst])
          => last'.exc = "MetricNotFound"]_vars

C6_Witness ==
  /\ last.op = "remove_attributes"
  /\ last.exc = "none"
  /\ last.key \notin DOMAIN last.old
  /\ DOMAIN last.old # {}
  /\ AttrsOf(last.inst) = last.old

\* C7: no add, remove, add_attributes or remove_attributes call on one
\* manager changes the metrics map or the attributes seen through another
\* manager, also when both were constructed from the same attributes dict.
C7_NoSharingAcrossInstances ==
  [][\A j \in alive :
       (last'.op \in {"add", "remove", "add_attributes", "remove_attributes"}
          /\ last'.inst # j)
       => /\ metrics'[j] = metrics[j]
          /\ heap'[attributes'[j]] = heap[attributes[j]]]_vars

\* C8: after customize_record_factory calls with A1..An, a log record is
\* the record of the factory installed before the first call, with every
\* field of every Ai set on it; for a name given in several calls the value
\* of the latest call stands.
C8_FactoryLayersChain ==
  [][\A m \in Msgs : MakeLogRecord(m) =>
       LET r       == logRecord'.fields
           base    == LogRecord(m)
           given   == UNION {DOMAIN installed[n] : n \in DOMAIN installed}
           Latest(f) == CHOOSE n \in DOMAIN installed :
                          /\ f \in DOMAIN installed[n]
                          /\ \A p \in DOMAIN installed :
                               f \in DOMAIN installed[p] => p <= n
       IN /\ DOMAIN r = DOMAIN base \cup given
          /\ \A f \in given : r[f] = installed[Latest(f)][f]
          /\ \A f \in DOMAIN base \ given : r[f] = base[f]]_vars

C8_Witness ==
  /\ Len(installed) >= 2
  /\ "x" \in DOMAIN installed[1] /\ "x" \in DOMAIN installed[2]
  /\ installed[1]["x"] # installed[2]["x"]
  /\ "msg" \in DOMAIN installed[1] /\ "msg" \notin DOMAIN installed[2]
  /\ DOMAIN logRecord.fields = {"msg", "levelname", "x"}
  /\ logRecord.fields["x"] = installed[2]["x"]
  /\ logRecord.fields["msg"] = installed[1]["msg"]
  /\ logRecord.fields["levelname"] = "INFO"

\* C9: add with a malformed entry raises the configuration error after
\* writing the keys that come before the first malformed entry; the
\* malformed key and the keys after it keep whatever they had.
C9_AddIsNotAtomic ==
  [][(last'.op = "add" /\ ~ Valid(last'.cfg)) =>
       LET i      == last'.inst
           cfg    == last'.cfg
           b      == FirstBad(cfg)
           before == {cfg[n].key : n \in 1..(b - 1)}
           made   == last'.created
       IN /\ last'.exc = "MetricConfigurationException"
          /\ Len(made) = b - 1
          /\ \A n \in 1..(b - 1) :
               /\ cfg[n].key \in DOMAIN metrics'[i]
               /\ metrics'[i][cfg[n].key] = made[n]
               /\ MadeFrom(made[n], cfg[n].def)
               /\ made[n].id >= nextId
          /\ SameExcept(metrics'[i], metrics[i], before)]_vars

C9_Witness ==
  /\ last.op = "add"
  /\ last.exc = "MetricConfigurationException"
  /\ Len(last.cfg) = 2
  /\ Len(last.created) = 1
  /\ metrics[last.inst][last.cfg[1].key] = last.created[1]
  /\ last.cfg[2].key \in DOMAIN last.old
  /\ metrics[last.inst][last.cfg[2].key] = last.old[last.cfg[2].key]

\* C10: record on a registered key hands one measurement to the handle
\* registered under the key, with the amount given and the attributes as
\* they are at the call, and changes neither the metrics map nor the
\* attributes.
C10_RecordHandsOneMeasurement ==
  [][(last'.op = "record" /\ last'.key \in DOMAIN metrics[last'.inst]) =>
       LET i == last'.inst
       IN /\ Len(last'.handed) = 1
          /\ last'.handed[1].handle = metrics[i][last'.key]
          /\ last'.handed[1].amount = last'.amount
          /\ last'.handed[1].attributes = heap[attributes[i]]
          /\ metrics' = metrics
          /\ heap' = heap
          /\ attributes' = attributes]_vars

C10_Witness ==
  /\ last.op = "record"
  /\ last.exc = "none"
  /\ Len(last.handed) = 1
  /\ last.handed[1].amount = 2
  /\ last.handed[1].attributes = [a |-> 2]
  /\ AttrsOf(last.inst) = [a |-> 2]
====
